---- MODULE Spec2Model ----
(***************************************************************************)
(* A model of qiskit_addon_sympy/statevector_simulator.py: the gate        *)
(* factory get_sym_op, the per-circuit evolution run_circuit and the batch *)
(* driver _run_job of SympyStatevectorSimulator.                           *)
(*                                                                         *)
(* Symbolic amplitudes are modelled exactly.  Every angle is an integer    *)
(* multiple of pi/2, so every amplitude lies in the ring Z[w][1/2] with    *)
(* w = exp(I*pi/4); an element is kept in the canonical form               *)
(* (c[1] + c[2] w + c[3] w^2 + c[4] w^3) / 2^k with k minimal, which       *)
(* stands for sympy's simplified expression.                               *)
(***************************************************************************)
EXTENDS Integers, Sequences, FiniteSets, TLC

VARIABLES
    number_of_qubits,   \* self._number_of_qubits
    statevector,        \* self._statevector
    pc,                 \* position of the caller / of the running method
    call,               \* arguments of a direct get_sym_op call (params is the caller's list)
    ret,                \* value returned by get_sym_op or run_circuit
    error,              \* the exception that ended the call, or NoError
    experiments,        \* qobj.experiments of the running call
    ci,                 \* index of the circuit being run
    ip,                 \* number of instructions of that circuit already processed
    operation,          \* the instruction object the loop of run_circuit handled last
    result_list         \* _run_job's result_list

vars == <<number_of_qubits, statevector, pc, call, ret, error, experiments, ci, ip,
          operation, result_list>>

---------------------------------------------------------------------------
(* Bounds of the model *)

MaxParams == 4      \* longest parameter list handed to a gate
MaxInstrs == 3      \* longest circuit handed to run_circuit
MaxCircuits == 2    \* most circuits in one qobj
MaxJobOps == 2      \* most instructions in one qobj

(* Angles, in units of pi/2 *)
Zero == 0
HalfPi == 1
Pi == 2

Angles == {Zero, HalfPi, Pi}
QubitCounts == {1, 2}

---------------------------------------------------------------------------
(* Python values *)

None == [has |-> FALSE, list |-> <<>>]
List(l) == [has |-> TRUE, list |-> l]

NoneInt == -1
NoState == [n |-> 0, amp |-> <<>>]

(* No value returned (yet) *)
NoReturn == [none |-> TRUE]

NoError == [kind |-> "none", msg |-> "", arg |-> <<>>]
Raise(kind, msg, arg) == [kind |-> kind, msg |-> msg, arg |-> arg]

(* list.insert(0, x) *)
Insert0(l, x) == <<x>> \o l

---------------------------------------------------------------------------
(* Strings: a name is the sequence of its characters *)

LowerCase == <<"a","b","c","d","e","f","g","h","i","j","k","l","m",
               "n","o","p","q","r","s","t","u","v","w","x","y","z">>
UpperCase == <<"A","B","C","D","E","F","G","H","I","J","K","L","M",
               "N","O","P","Q","R","S","T","U","V","W","X","Y","Z">>

UpperChar(c) ==
    IF \E i \in 1..Len(LowerCase) : LowerCase[i] = c
    THEN UpperCase[CHOOSE i \in 1..Len(LowerCase) : LowerCase[i] = c]
    ELSE c

(* str.upper() *)
RECURSIVE Upper(_)
Upper(name) == IF name = <<>> THEN <<>> ELSE <<UpperChar(Head(name))>> \o Upper(Tail(name))

(* str.startswith(prefix) *)
StartsWith(name, prefix) ==
    /\ Len(name) >= Len(prefix)
    /\ SubSeq(name, 1, Len(prefix)) = prefix

---------------------------------------------------------------------------
(* A value bound once: TLC evaluates an operator's argument at each of its
   uses, Let1 and Let2 hand F the evaluated value *)

Let1(v, F(_)) == CHOOSE r \in {F(x) : x \in {v}} : TRUE
Let2(v, w, F(_, _)) == CHOOSE r \in {F(x, y) : x \in {v}, y \in {w}} : TRUE

---------------------------------------------------------------------------
(* Exact arithmetic in Z[w][1/2], w = exp(I*pi/4), w^4 = -1 *)

RECURSIVE Pow2(_)
Pow2(n) == IF n = 0 THEN 1 ELSE 2 * Pow2(n - 1)

Ring(c1, c2, c3, c4, k) == [c |-> <<c1, c2, c3, c4>>, k |-> k]

RZero == Ring(0, 0, 0, 0, 0)
ROne == Ring(1, 0, 0, 0, 0)

(* The canonical form: the least power of 2 in the denominator *)
RECURSIVE NormV(_)
NormV(x) ==
    IF x.k > 0 /\ x.c[1] % 2 = 0 /\ x.c[2] % 2 = 0 /\ x.c[3] % 2 = 0 /\ x.c[4] % 2 = 0
    THEN Let1(Ring(x.c[1] \div 2, x.c[2] \div 2, x.c[3] \div 2, x.c[4] \div 2, x.k - 1), NormV)
    ELSE x

Norm(v) == Let1(v, NormV)

NegV(x) == Ring(0 - x.c[1], 0 - x.c[2], 0 - x.c[3], 0 - x.c[4], x.k)

AddV(x, y) ==
    LET k == IF x.k > y.k THEN x.k ELSE y.k
        px == Pow2(k - x.k)
        py == Pow2(k - y.k)
    IN  Norm(Ring(x.c[1] * px + y.c[1] * py, x.c[2] * px + y.c[2] * py,
                  x.c[3] * px + y.c[3] * py, x.c[4] * px + y.c[4] * py, k))

MulV(x, y) ==
    IF x = RZero \/ y = RZero THEN RZero
    ELSE IF x = ROne THEN y
    ELSE IF y = ROne THEN x
    ELSE Norm(Ring(
        x.c[1] * y.c[1] - x.c[2] * y.c[4] - x.c[3] * y.c[3] - x.c[4] * y.c[2],
        x.c[1] * y.c[2] + x.c[2] * y.c[1] - x.c[3] * y.c[4] - x.c[4] * y.c[3],
        x.c[1] * y.c[3] + x.c[2] * y.c[2] + x.c[3] * y.c[1] - x.c[4] * y.c[4],
        x.c[1] * y.c[4] + x.c[2] * y.c[3] + x.c[3] * y.c[2] + x.c[4] * y.c[1],
        x.k + y.k))

HalfV(x) == Norm(Ring(x.c[1], x.c[2], x.c[3], x.c[4], x.k + 1))

RNeg(a) == Let1(a, NegV)
RAdd(a, b) == Let2(a, b, AddV)
RMul(a, b) == Let2(a, b, MulV)
RHalf(a) == Let1(a, HalfV)

(* w^j = exp(I*j*pi/4) *)
Omega(j) ==
    LET m == j % 8
    IN  CASE m = 0 -> Ring(1, 0, 0, 0, 0)
          [] m = 1 -> Ring(0, 1, 0, 0, 0)
          [] m = 2 -> Ring(0, 0, 1, 0, 0)
          [] m = 3 -> Ring(0, 0, 0, 1, 0)
          [] m = 4 -> Ring(-1, 0, 0, 0, 0)
          [] m = 5 -> Ring(0, -1, 0, 0, 0)
          [] m = 6 -> Ring(0, 0, -1, 0, 0)
          [] m = 7 -> Ring(0, 0, 0, -1, 0)

(* cos(j*pi/4) = (w^j + w^-j)/2 and sin(j*pi/4) = (w^j - w^-j)/(2 I) *)
Cos4(j) == RHalf(RAdd(Omega(j), Omega(8 - (j % 8))))
Sin4(j) == RHalf(RMul(RAdd(Omega(j), RNeg(Omega(8 - (j % 8)))), Omega(6)))

(* exp(I*a) for an angle a in units of pi/2 *)
ExpI(a) == Omega(2 * a)

---------------------------------------------------------------------------
(* Gate classes of the module *)

SDGMatrix == <<<<ROne, RZero>>, <<RZero, RNeg(ExpI(HalfPi))>>>>
TDGMatrix == <<<<ROne, RZero>>, <<RZero, Omega(7)>>>>

(* simulatortools.compute_ugate_matrix: the U3 matrix of (theta, phi, lambda) *)
compute_ugate_matrix(parameters) ==
    LET theta == parameters[1]
        phi == parameters[2]
        lambda == parameters[3]
    IN  <<<<Cos4(theta), RNeg(RMul(ExpI(lambda), Sin4(theta)))>>,
          <<RMul(ExpI(phi), Sin4(theta)), RMul(ExpI(phi + lambda), Cos4(theta))>>>>

(* A gate object: its class, control and target qubits and, for the classes
   of this module, its target matrix *)
Gate(cls, controls, targets, mat) ==
    [cls |-> cls, controls |-> controls, targets |-> targets, mat |-> mat]

NoGate == Gate("None", <<>>, <<>>, <<>>)

SeqToSet(s) == {s[i] : i \in 1..Len(s)}

(* sympy CGate(controls, gate): _validate_targets_controls rejects a control
   qubit that is also a target of the wrapped gate *)
CGate(controls, gate) ==
    IF SeqToSet(controls) \cap SeqToSet(gate.targets) # {}
    THEN [err |-> Raise("QuantumError", "Target/control qubits in a gate cannot be duplicated", <<>>),
          gate |-> Gate("C(" \o gate.cls \o ")", controls, gate.targets, gate.mat)]
    ELSE [err |-> NoError,
          gate |-> Gate("C(" \o gate.cls \o ")", controls, gate.targets, gate.mat)]

---------------------------------------------------------------------------
(* get_sym_op *)

FixedOneQubit == {<<"I","D">>, <<"X">>, <<"Y">>, <<"Z">>, <<"H">>, <<"S">>,
                  <<"S","D","G">>, <<"T">>, <<"T","D","G">>}

(* The class that a fixed one-qubit name is mapped to (lines 291-308) *)
OneQubitClass(name) ==
    CASE name = <<"I","D">> -> "IdentityGate"
      [] name = <<"X">> -> "X"
      [] name = <<"Y">> -> "Y"
      [] name = <<"Z">> -> "Z"
      [] name = <<"H">> -> "H"
      [] name = <<"S">> -> "S"
      [] name = <<"S","D","G">> -> "SDGGate"
      [] name = <<"T">> -> "T"
      [] name = <<"T","D","G">> -> "TDGGate"

OneQubitMatrix(name) ==
    CASE name = <<"S","D","G">> -> SDGMatrix
      [] name = <<"T","D","G">> -> TDGMatrix
      [] OTHER -> <<>>

IndexError == Raise("IndexError", "tuple index out of range", <<>>)

(* The branches of lines 290-319: [matched, err, gate] *)
fixed_gate(name, qid_tuple) ==
    IF name \in FixedOneQubit
    THEN [matched |-> TRUE, err |-> NoError,
          gate |-> Gate(OneQubitClass(name), <<>>, qid_tuple, OneQubitMatrix(name))]
    ELSE IF name = <<"C","X">> \/ name = <<"C","N","O","T">>
    THEN [matched |-> TRUE, err |-> NoError,
          gate |-> Gate("CNOT", SubSeq(qid_tuple, 1, 1), SubSeq(qid_tuple, 2, 2), <<>>)]
    ELSE IF name = <<"C","Y">> \/ name = <<"C","Z">>
    THEN IF Len(qid_tuple) < 2
         THEN [matched |-> TRUE, err |-> IndexError, gate |-> NoGate]
         ELSE LET g == CGate(<<qid_tuple[1]>>, Gate(name[2], <<>>, <<qid_tuple[2]>>, <<>>))
              IN  [matched |-> TRUE, err |-> g.err,
                   gate |-> IF g.err = NoError THEN g.gate ELSE NoGate]
    ELSE IF name = <<"C","C","X">> \/ name = <<"C","C","N","O","T">>
            \/ name = <<"T","O","F","F","O","L","I">>
    THEN IF Len(qid_tuple) < 3
         THEN [matched |-> TRUE, err |-> IndexError, gate |-> NoGate]
         ELSE LET g == CGate(<<qid_tuple[1], qid_tuple[2]>>, Gate("X", <<>>, <<qid_tuple[3]>>, <<>>))
              IN  [matched |-> TRUE, err |-> g.err,
                   gate |-> IF g.err = NoError THEN g.gate ELSE NoGate]
    ELSE [matched |-> FALSE, err |-> NoError, gate |-> NoGate]

(* A variant of normalize_parameters that pads a list of two with 0.0 *)
normalize_parameters_zero_theta(params) ==
    IF ~params.has
    THEN [err |-> Raise("TypeError", "object of type 'NoneType' has no len()", <<>>),
          parameters |-> params]
    ELSE IF Len(params.list) = 1
    THEN [err |-> NoError, parameters |-> List(Insert0(Insert0(params.list, Zero), Zero))]
    ELSE IF Len(params.list) = 2
    THEN [err |-> NoError, parameters |-> List(Insert0(params.list, Zero))]
    ELSE IF Len(params.list) = 3
    THEN [err |-> NoError, parameters |-> params]
    ELSE [err |-> Raise("SympySimulatorError", "U gate must carry 1, 2 or 3 parameters!", <<>>),
          parameters |-> params]

(* Lines 323-333: parameters aliases the caller's list, which the inserts
   change in place; len(None) is a TypeError *)
normalize_parameters(params) ==
    IF ~params.has
    THEN [err |-> Raise("TypeError", "object of type 'NoneType' has no len()", <<>>),
          parameters |-> params]
    ELSE IF Len(params.list) = 1
    THEN [err |-> NoError, parameters |-> List(Insert0(Insert0(params.list, Zero), Zero))]
    ELSE IF Len(params.list) = 2
    THEN [err |-> NoError, parameters |-> List(Insert0(params.list, HalfPi))]
    ELSE IF Len(params.list) = 3
    THEN [err |-> NoError, parameters |-> params]
    ELSE [err |-> Raise("SympySimulatorError", "U gate must carry 1, 2 or 3 parameters!", <<>>),
          parameters |-> params]

(* Lines 335-345: the gate built for a name of the U or CU family *)
rotation_gate(name, qid_tuple, parameters) ==
    Let1(Gate("UGateGeneric", <<>>, qid_tuple, compute_ugate_matrix(parameters)),
         LAMBDA ugate :
            IF StartsWith(name, <<"U">>)
            THEN [err |-> NoError, gate |-> ugate]
            ELSE CGate(<<qid_tuple[1]>>, ugate))

(* get_sym_op(name, qid_tuple, params): the exception or the gate returned,
   and the caller's params object as the call leaves it *)
get_sym_op(name, qid_tuple, params) ==
    LET fixed == fixed_gate(name, qid_tuple)
    IN  IF fixed.matched
        THEN [err |-> fixed.err, gate |-> fixed.gate, params |-> params]
        ELSE IF StartsWith(name, <<"U">>) \/ StartsWith(name, <<"C","U">>)
        THEN LET norm == normalize_parameters(params)
             IN  IF norm.err # NoError
                 THEN [err |-> norm.err, gate |-> NoGate, params |-> norm.parameters]
                 ELSE Let1(rotation_gate(name, qid_tuple, norm.parameters.list),
                           LAMBDA built :
                              [err |-> built.err,
                               gate |-> IF built.err = NoError THEN built.gate ELSE NoGate,
                               params |-> norm.parameters])
        ELSE [err |-> Raise("SympySimulatorError", "Not supported", <<>>),
              gate |-> NoGate, params |-> params]

---------------------------------------------------------------------------
(* The register state: Qubit, qapply, represent *)

Dim(n) == Pow2(n)

(* The Qubit of n zeros (line 230): the basis state |0...0>; amp[i + 1] is the
   amplitude of the basis state whose bit q is the value of qubit q *)
Qubit0(n) == [n |-> n, amp |-> [i \in 1..Dim(n) |-> IF i = 1 THEN ROne ELSE RZero]]

Bit(i, q) == (i \div Pow2(q)) % 2

(* A one-qubit gate with target matrix mat applied to qubit q *)
ApplyOneQubit(mat, q, sv) ==
    [n |-> sv.n,
     amp |-> [j \in 1..Dim(sv.n) |->
                LET i == j - 1
                    b == Bit(i, q)
                    i0 == i - b * Pow2(q)
                    i1 == i0 + Pow2(q)
                IN  RAdd(RMul(mat[b + 1][1], sv.amp[i0 + 1]),
                         RMul(mat[b + 1][2], sv.amp[i1 + 1]))]]

(* CNOT(c, t): the target bit is flipped where the control bit is 1 *)
ApplyCNOT(c, t, sv) ==
    [n |-> sv.n,
     amp |-> [j \in 1..Dim(sv.n) |->
                LET i == j - 1
                    src == IF Bit(i, c) = 1
                           THEN (IF Bit(i, t) = 1 THEN i - Pow2(t) ELSE i + Pow2(t))
                           ELSE i
                IN  sv.amp[src + 1]]]

(* qapply(gate * statevector) for the gates run_circuit applies *)
qapply(gate, sv) ==
    IF gate.cls = "CNOT"
    THEN ApplyCNOT(gate.controls[1], gate.targets[1], sv)
    ELSE ApplyOneQubit(gate.mat, gate.targets[1], sv)

(* represent(statevector) read off as a list (lines 263-265) *)
represent(sv) == sv.amp

---------------------------------------------------------------------------
(* run_circuit *)

MEASURE == <<"m","e","a","s","u","r","e">>
RESET == <<"r","e","s","e","t">>
ID == <<"i","d">>
BARRIER == <<"b","a","r","r","i","e","r">>

Instr(name, qubits, params, conditional) ==
    [name |-> name, qubits |-> qubits, params |-> params, conditional |-> conditional]

NoInstr == Instr(<<>>, <<>>, None, FALSE)

(* The tuples of lines 239 and 250 *)
UNames == {<<"U">>, <<"u","1">>, <<"u","2">>, <<"u","3">>}
CXNames == {<<"C","X">>, <<"c","x">>}

(* Variants of the definitions below that the properties must tell from them:
   a gate built from the name as the instruction spells it, a condition that
   is never seen, an ignored instruction that resets the register, an unknown
   instruction that is skipped *)
apply_gate_as_named(sv, op, qid_tuple) ==
    Let1(get_sym_op(op.name, qid_tuple, op.params), LAMBDA sym_op :
        [statevector |-> IF sym_op.err = NoError THEN qapply(sym_op.gate, sv) ELSE sv,
         operation |-> [op EXCEPT !.params = sym_op.params],
         err |-> sym_op.err])

never_conditional(op) == FALSE

ignored_resets(sv, op) ==
    [statevector |-> Qubit0(sv.n), operation |-> op, err |-> NoError]

unrecognized_skipped(sv, op) ==
    [statevector |-> sv, operation |-> op, err |-> NoError]

(* Lines 239-245 and 250-257: the operator is built from the upper-cased
   name, applied and simplified; an exception of get_sym_op propagates *)
apply_gate(sv, op, qid_tuple) ==
    LET opparas == op.params
    IN  Let1(Upper(op.name), LAMBDA opname :
          Let1(get_sym_op(opname, qid_tuple, opparas), LAMBDA sym_op :
            [statevector |-> IF sym_op.err = NoError THEN qapply(sym_op.gate, sv) ELSE sv,
             operation |-> [op EXCEPT !.params = sym_op.params],
             err |-> sym_op.err]))

(* Line 232: getattr(operation, 'conditional', None) is truthy *)
is_conditional(op) == op.conditional

(* Lines 233-234 *)
conditional_error(sv, op) ==
    [statevector |-> sv, operation |-> op,
     err |-> Raise("SympySimulatorError",
                   "conditional operations not supported in statevector simulator", <<>>)]

(* Lines 236-238 *)
measure_or_reset_error(sv, op) ==
    [statevector |-> sv, operation |-> op,
     err |-> Raise("SympySimulatorError",
                   "operation {} not supported by sympy statevector simulator.", op.name)]

(* Lines 246-249: id and barrier are logged and nothing else *)
ignored(sv, op) ==
    [statevector |-> sv, operation |-> op, err |-> NoError]

(* Lines 258-261 *)
unrecognized(sv, op) ==
    [statevector |-> sv, operation |-> op,
     err |-> Raise("SympySimulatorError",
                   "{0} encountered unrecognized operation \"{1}\"", op.name)]

(* The body of the loop of lines 231-261 for one operation: the register
   state and the operation object as the body leaves them, and the
   exception it raises, if any *)
run_op(sv, op) ==
    IF is_conditional(op) THEN conditional_error(sv, op)
    ELSE IF op.name \in {MEASURE, RESET} THEN measure_or_reset_error(sv, op)
    ELSE IF op.name \in UNames THEN apply_gate(sv, op, <<op.qubits[1]>>)
    ELSE IF op.name = ID THEN ignored(sv, op)
    ELSE IF op.name = BARRIER THEN ignored(sv, op)
    ELSE IF op.name \in CXNames THEN apply_gate(sv, op, <<op.qubits[1], op.qubits[2]>>)
    ELSE unrecognized(sv, op)

(* Lines 268-276: the ExperimentResult of a circuit *)
ExperimentResult(sv, name) ==
    [data |-> represent(sv), success |-> TRUE, shots |-> 1, status |-> "DONE", header |-> name]

---------------------------------------------------------------------------
(* Inputs *)

(* The sequences over S of length at most n *)
RECURSIVE SeqsUpTo(_, _)
SeqsUpTo(S, n) ==
    IF n = 0 THEN {<<>>}
    ELSE Let1(SeqsUpTo(S, n - 1), LAMBDA shorter :
            shorter \cup {Append(l, x) : l \in {m \in shorter : Len(m) = n - 1}, x \in S})

(* Names handed to get_sym_op directly: every name it matches, the U and CU
   family, letter-case variants and names it does not know *)
OpNames ==
    FixedOneQubit
    \cup {<<"C","X">>, <<"C","N","O","T">>, <<"C","Y">>, <<"C","Z">>,
          <<"C","C","X">>, <<"C","C","N","O","T">>, <<"T","O","F","F","O","L","I">>}
    \cup {<<"U">>, <<"U","1">>, <<"U","2">>, <<"U","3">>,
          <<"C","U","1">>, <<"C","U","2">>, <<"C","U","3">>}
    \cup {<<"h">>, <<"x">>, <<"i","d">>, <<"c","x">>, <<"C","x">>, <<"u">>, <<"u","1">>,
          <<"c","u","1">>, <<"S","W","A","P">>}

Qubits == 0..2

DistinctTuples(n) ==
    {t \in [1..n -> Qubits] : \A i, j \in 1..n : i # j => t[i] # t[j]}

(* The qubit tuples a name is called with: as many qubits as the gate takes,
   and for the CU family also one more *)
QidTuples(name) ==
    LET up == Upper(name)
    IN  IF up \in {<<"C","C","X">>, <<"C","C","N","O","T">>, <<"T","O","F","F","O","L","I">>}
        THEN DistinctTuples(3)
        ELSE IF StartsWith(up, <<"C","U">>)
        THEN DistinctTuples(2) \cup DistinctTuples(3)
        ELSE IF StartsWith(up, <<"C">>)
        THEN DistinctTuples(2)
        ELSE DistinctTuples(1)

ParamObjects == {None} \cup {List(l) : l \in SeqsUpTo(Angles, MaxParams)}

(* Instructions of a circuit over nq qubits *)
InstrNames ==
    {MEASURE, RESET, ID, BARRIER} \cup UNames \cup CXNames
    \cup {<<"h">>, <<"H">>, <<"u">>, <<"U","1">>, <<"U","3">>, <<"C","x">>, <<"I","D">>}

InstrQubits(name, nq) ==
    IF Upper(name) = <<"C","X">>
    THEN {t \in [1..2 -> 0..(nq - 1)] : t[1] # t[2]}
    ELSE [1..1 -> 0..(nq - 1)]

(* Lists of angles of every length from 0 to 3 *)
InstrLists ==
    {<<>>, <<Pi>>, <<HalfPi>>, <<Zero, Pi>>, <<Pi, Zero>>,
     <<HalfPi, Zero, Pi>>, <<Pi, Zero, Pi>>}

(* The params an instruction carries: none unless it is a U gate; a U gate
   carries one of the lists above, or a list that is too long, or none *)
InstrParams(name, conditional) ==
    IF name \notin UNames THEN {None}
    ELSE IF conditional THEN {None, List(<<Pi>>)}
    ELSE {None} \cup {List(l) : l \in InstrLists}
                \cup {List([i \in 1..n |-> Pi]) : n \in 4..MaxParams}

InstrsOf(nq) ==
    UNION {UNION {{Instr(name, qubits, params, conditional) :
                      qubits \in InstrQubits(name, nq),
                      params \in InstrParams(name, conditional)} :
                  conditional \in BOOLEAN} :
           name \in InstrNames}

InstrTable == [nq \in QubitCounts |-> InstrsOf(nq)]
Instrs(nq) == InstrTable[nq]

(* Instructions of the circuits of a qobj, all on qubit 0: one of each way
   an instruction is handled *)
JobInstrs ==
    {Instr(MEASURE, <<0>>, None, FALSE),
     Instr(RESET, <<0>>, None, FALSE),
     Instr(ID, <<0>>, None, FALSE),
     Instr(ID, <<0>>, None, TRUE),
     Instr(<<"h">>, <<0>>, None, FALSE),
     Instr(<<"u","2">>, <<0>>, List(<<Zero, Pi>>), FALSE),
     Instr(<<"u","3">>, <<0>>, List([i \in 1..MaxParams |-> Pi]), FALSE),
     Instr(<<"u","1">>, <<0>>, None, FALSE)}

Circuit(nq, name, instructions) ==
    [number_of_qubits |-> nq, name |-> name, instructions |-> instructions]

(* The instructions of a qobj, circuit after circuit *)
JobOps == SeqsUpTo(JobInstrs, MaxJobOps)

(* The ways to share out n instructions among c circuits: circuit j takes
   the instructions cuts[j-1]+1 .. cuts[j] *)
Cuts(n, c) ==
    {cuts \in [1..c -> 0..n] :
        /\ \A j \in 1..(c - 1) : cuts[j] <= cuts[j + 1]
        /\ IF c = 0 THEN n = 0 ELSE cuts[c] = n}

(* The first c circuits of that qobj; a circuit is named by its place *)
RECURSIVE MkQobj(_, _, _, _)
MkQobj(ops, c, cuts, nqs) ==
    IF c = 0 THEN <<>>
    ELSE Append(MkQobj(ops, c - 1, cuts, nqs),
                Circuit(nqs[c], c,
                        SubSeq(ops, (IF c = 1 THEN 0 ELSE cuts[c - 1]) + 1, cuts[c])))

---------------------------------------------------------------------------
(* The simulator object after __init__ (lines 143-144), no call running *)

NoCall == [name |-> <<>>, qid_tuple |-> <<>>, params |-> None, given |-> None]

Init ==
    /\ number_of_qubits = NoneInt
    /\ statevector = NoState
    /\ pc = "idle"
    /\ call = NoCall
    /\ ret = NoReturn
    /\ error = NoError
    /\ experiments = <<>>
    /\ ci = 0
    /\ ip = 0
    /\ operation = NoInstr
    /\ result_list = <<>>

(* The caller takes the result or the exception; the object lives on *)
Return ==
    /\ pc \in {"returned", "raised"}
    /\ pc' = "idle"
    /\ call' = NoCall
    /\ ret' = NoReturn
    /\ error' = NoError
    /\ experiments' = <<>>
    /\ ci' = 0
    /\ ip' = 0
    /\ operation' = NoInstr
    /\ result_list' = <<>>
    /\ UNCHANGED <<number_of_qubits, statevector>>

(* The caller takes the result or the exception and constructs a new
   simulator for the next call (lines 143-144) *)
Construct ==
    /\ pc \in {"returned", "raised"}
    /\ number_of_qubits' = NoneInt
    /\ statevector' = NoState
    /\ pc' = "idle"
    /\ call' = NoCall
    /\ ret' = NoReturn
    /\ error' = NoError
    /\ experiments' = <<>>
    /\ ci' = 0
    /\ ip' = 0
    /\ operation' = NoInstr
    /\ result_list' = <<>>

---------------------------------------------------------------------------
(* Direct calls of the static method get_sym_op *)

(* A caller builds the arguments; given keeps what the list held then *)
CallGetSymOp ==
    /\ pc = "idle"
    /\ \E name \in OpNames :
         \E qid_tuple \in QidTuples(name), params \in ParamObjects :
            call' = [name |-> name, qid_tuple |-> qid_tuple, params |-> params, given |-> params]
    /\ pc' = "called"
    /\ UNCHANGED <<number_of_qubits, statevector, ret, error, experiments, ci, ip,
                   operation, result_list>>

(* Lines 290-347 *)
GetSymOp ==
    /\ pc = "called"
    /\ \E r \in {get_sym_op(call.name, call.qid_tuple, call.params)} :
           /\ call' = [call EXCEPT !.params = r.params]
           /\ ret' = IF r.err = NoError THEN r.gate ELSE NoReturn
           /\ error' = r.err
           /\ pc' = IF r.err = NoError THEN "returned" ELSE "raised"
    /\ UNCHANGED <<number_of_qubits, statevector, experiments, ci, ip, operation, result_list>>

NextOp == CallGetSymOp \/ GetSymOp \/ Return

SpecOp == Init /\ [][NextOp]_vars

---------------------------------------------------------------------------
(* Calls of run_circuit, one after another on the same simulator object.
   The loop takes the circuit's instructions one at a time: LoopStep handles
   the next instruction, LoopEnd is the end of the instruction list. *)

(* Lines 227-230 *)
RunCircuit ==
    /\ pc = "idle"
    /\ \E nq \in QubitCounts :
         /\ number_of_qubits' = nq
         /\ statevector' = Qubit0(nq)
    /\ pc' = "loop"
    /\ ip' = 0
    /\ UNCHANGED <<call, ret, error, experiments, ci, operation, result_list>>

(* Lines 231-261, one iteration *)
LoopStep ==
    /\ pc = "loop"
    /\ ip < MaxInstrs
    /\ \E op \in Instrs(number_of_qubits) :
         \E r \in {run_op(statevector, op)} :
             /\ statevector' = r.statevector
             /\ operation' = r.operation
             /\ error' = r.err
             /\ pc' = IF r.err = NoError THEN "loop" ELSE "raised"
    /\ ip' = ip + 1
    /\ UNCHANGED <<number_of_qubits, call, ret, experiments, ci, result_list>>

(* Lines 263-276 *)
LoopEnd ==
    /\ pc = "loop"
    /\ ret' = ExperimentResult(statevector, 0)
    /\ pc' = "returned"
    /\ UNCHANGED <<number_of_qubits, statevector, call, error, experiments, ci, ip,
                   operation, result_list>>

Next == RunCircuit \/ LoopStep \/ LoopEnd \/ Return

Spec == Init /\ [][Next]_vars

---------------------------------------------------------------------------
(* Direct calls of get_sym_op and calls of run_circuit, each on a newly
   constructed simulator *)

NextApi == CallGetSymOp \/ GetSymOp \/ RunCircuit \/ LoopStep \/ LoopEnd \/ Construct

SpecApi == Init /\ [][NextApi]_vars

---------------------------------------------------------------------------
(* Calls of _run_job, one after another on the same simulator object *)

IsMeasureOrReset(op) == op.name \in {MEASURE, RESET}

(* A variant of validate that looks at the first circuit only *)
validate_first_circuit(exps) ==
    IF exps # <<>> /\ \E i \in 1..Len(exps[1].instructions) :
                            IsMeasureOrReset(exps[1].instructions[i])
    THEN Raise("SympySimulatorError",
               "In circuit {}: statevector simulator does not support measure or reset.",
               <<exps[1].name>>)
    ELSE NoError

(* _validate (lines 360-365): the exception for the first measure or reset
   of the qobj, in circuit order and then instruction order *)
validate(exps) ==
    IF \E j \in 1..Len(exps) : \E i \in 1..Len(exps[j].instructions) :
            IsMeasureOrReset(exps[j].instructions[i])
    THEN LET j == CHOOSE j \in 1..Len(exps) :
                    /\ \E i \in 1..Len(exps[j].instructions) :
                            IsMeasureOrReset(exps[j].instructions[i])
                    /\ \A h \in 1..(j - 1) : \A i \in 1..Len(exps[h].instructions) :
                            ~IsMeasureOrReset(exps[h].instructions[i])
         IN  Raise("SympySimulatorError",
                   "In circuit {}: statevector simulator does not support measure or reset.",
                   <<exps[j].name>>)
    ELSE NoError

(* Lines 189-191: the qobj is validated before any circuit is run.  The qobj
   is any list of at most MaxCircuits circuits that hold at most MaxJobOps
   instructions in all *)
RunJob ==
    /\ pc = "idle"
    /\ \E ops \in JobOps, c \in 0..MaxCircuits :
         \E cuts \in Cuts(Len(ops), c), nqs \in [1..c -> QubitCounts] :
         \E qobj \in {MkQobj(ops, c, cuts, nqs)} :
         \E err \in {validate(qobj)} :
            /\ experiments' = qobj
            /\ error' = err
            /\ pc' = IF err = NoError THEN "job" ELSE "raised"
            /\ ci' = IF err = NoError THEN 1 ELSE 0
    /\ result_list' = <<>>
    /\ UNCHANGED <<number_of_qubits, statevector, call, ret, ip, operation>>

(* A variant of BeginCircuit that keeps the register a circuit of the same
   size left behind *)
BeginCircuitOnOldState ==
    /\ pc = "job"
    /\ ci <= Len(experiments)
    /\ number_of_qubits' = experiments[ci].number_of_qubits
    /\ statevector' = IF statevector.n = experiments[ci].number_of_qubits
                      THEN statevector
                      ELSE Qubit0(experiments[ci].number_of_qubits)
    /\ pc' = "loop"
    /\ ip' = 0
    /\ UNCHANGED <<call, ret, error, experiments, ci, operation, result_list>>

(* Line 193 calls run_circuit for the next circuit: lines 227-230 *)
BeginCircuit ==
    /\ pc = "job"
    /\ ci <= Len(experiments)
    /\ number_of_qubits' = experiments[ci].number_of_qubits
    /\ statevector' = Qubit0(experiments[ci].number_of_qubits)
    /\ pc' = "loop"
    /\ ip' = 0
    /\ UNCHANGED <<call, ret, error, experiments, ci, operation, result_list>>

(* Lines 231-261, one iteration on the circuit's next instruction *)
JobStep ==
    /\ pc = "loop"
    /\ ip < Len(experiments[ci].instructions)
    /\ \E r \in {run_op(statevector, experiments[ci].instructions[ip + 1])} :
         /\ statevector' = r.statevector
         /\ operation' = r.operation
         /\ experiments' = [experiments EXCEPT ![ci].instructions[ip + 1] = r.operation]
         /\ error' = r.err
         /\ pc' = IF r.err = NoError THEN "loop" ELSE "raised"
    /\ ip' = ip + 1
    /\ UNCHANGED <<number_of_qubits, call, ret, ci, result_list>>

(* Lines 263-276 and the append of line 193 *)
EndCircuit ==
    /\ pc = "loop"
    /\ ip = Len(experiments[ci].instructions)
    /\ result_list' = Append(result_list, ExperimentResult(statevector, experiments[ci].name))
    /\ ci' = ci + 1
    /\ pc' = "job"
    /\ UNCHANGED <<number_of_qubits, statevector, call, ret, error, experiments, ip, operation>>

(* Lines 194-208 *)
FinishJob ==
    /\ pc = "job"
    /\ ci > Len(experiments)
    /\ ret' = [results |-> result_list, status |-> "COMPLETED", success |-> TRUE]
    /\ pc' = "returned"
    /\ UNCHANGED <<number_of_qubits, statevector, call, error, experiments, ci, ip,
                   operation, result_list>>

NextJob == RunJob \/ BeginCircuit \/ JobStep \/ EndCircuit \/ FinishJob \/ Return

SpecJob == Init /\ [][NextJob]_vars

---------------------------------------------------------------------------
(* Properties of get_sym_op, under SpecOp *)

IsRotationName(name) == StartsWith(name, <<"U">>) \/ StartsWith(name, <<"C","U">>)

(* A direct call of get_sym_op has ended *)
CallDone == pc \in {"returned", "raised"} /\ call # NoCall

(* The triple (theta, phi, lambda) that a list of 1, 2 or 3 angles stands for *)
Triple(l) ==
    CASE Len(l) = 1 -> <<Zero, Zero, l[1]>>
      [] Len(l) = 2 -> <<HalfPi, l[1], l[2]>>
      [] Len(l) = 3 -> <<l[1], l[2], l[3]>>

(* C4: for a name that begins with U or CU and a list of 1, 2 or 3 angles,
   the parameters get_sym_op works with are (0, 0, lambda) for [lambda],
   (pi/2, phi, lambda) for [phi, lambda] and the list itself for three
   angles, whatever digit the name carries; for a name that begins with U the
   gate returned is the generic gate on the given qubits whose matrix is
   compute_ugate_matrix of that triple. *)
C4_TripleFromCount ==
    (CallDone /\ IsRotationName(call.name) /\ call.given.has
        /\ Len(call.given.list) \in 1..3)
    => /\ call.params = List(Triple(call.given.list))
       /\ StartsWith(call.name, <<"U">>)
            => /\ pc = "returned"
               /\ ret = Gate("UGateGeneric", <<>>, call.qid_tuple,
                             compute_ugate_matrix(Triple(call.given.list)))

(* U1 called with two angles: the name says 1, the count decides *)
C4_Witness ==
    /\ pc = "returned"
    /\ call.name = <<"U","1">>
    /\ call.given = List(<<Pi, HalfPi>>)
    /\ call.params = List(<<HalfPi, Pi, HalfPi>>)
    /\ ret.cls = "UGateGeneric"

(* C5 as the specification states it: for a name that begins with U or CU,
   a params object that is not a list of 1, 2 or 3 elements (an empty list,
   a longer list, None) ends the call with SympySimulatorError and no gate. *)
C5_OwnErrorForBadCount ==
    (CallDone /\ IsRotationName(call.name)
        /\ ~(call.given.has /\ Len(call.given.list) \in 1..3))
    => /\ pc = "raised"
       /\ error.kind = "SympySimulatorError"
       /\ ret = NoReturn

(* C6 as the specification states it: for a name that begins with CU and a
   list of 1, 2 or 3 angles the call returns a controlled gate whose only
   control is the first qubit of the tuple and whose wrapped gate has the
   second qubit as its only target. *)
C6_ControlledOnSecondQubit ==
    (CallDone /\ StartsWith(call.name, <<"C","U">>) /\ call.given.has
        /\ Len(call.given.list) \in 1..3)
    => /\ pc = "returned"
       /\ ret.controls = <<call.qid_tuple[1]>>
       /\ ret.targets = <<call.qid_tuple[2]>>

(* C10 as the specification states it: the caller's parameter list is after
   the call what it was before the call. *)
C10_ParamsUntouched == CallDone => call.params = call.given

---------------------------------------------------------------------------
(* Properties of run_circuit, under Spec *)

(* The names the loop of run_circuit has a branch for *)
LoopNames == {MEASURE, RESET, ID, BARRIER} \cup UNames \cup CXNames

(* The step is an iteration of the loop of run_circuit; operation' is the
   instruction it handles *)
Iteration == pc = "loop" /\ ip' = ip + 1

(* C1: once the loop of run_circuit has met an instruction that is named
   measure or reset or whose conditional flag is set, after whatever
   instructions it handled before, the call has ended by raising
   SympySimulatorError and has returned no ExperimentResult. *)
C1_NoResultForMeasureResetConditional ==
    (operation # NoInstr
        /\ (operation.conditional \/ operation.name \in {MEASURE, RESET}))
    => /\ pc = "raised"
       /\ error.kind = "SympySimulatorError"
       /\ ret = NoReturn

(* A measure as third instruction, met with the register off its ground state *)
C1_Witness ==
    /\ pc = "raised"
    /\ operation.name = MEASURE
    /\ ~operation.conditional
    /\ ip = MaxInstrs
    /\ statevector # Qubit0(number_of_qubits)
    /\ error.kind = "SympySimulatorError"

(* C3: an iteration of the loop of run_circuit on an instruction named id or
   barrier that is not conditional leaves the register state as it was,
   raises nothing and goes on to the next instruction, whatever the state. *)
C3_IdBarrierKeepState ==
    [][(Iteration /\ operation'.name \in {ID, BARRIER} /\ ~operation'.conditional)
       => /\ statevector' = statevector
          /\ error' = NoError
          /\ pc' = "loop"]_vars

(* A barrier handled as third instruction with the register off its ground state *)
C3_Witness ==
    /\ pc = "loop"
    /\ operation.name = BARRIER
    /\ ~operation.conditional
    /\ ip = MaxInstrs
    /\ error = NoError
    /\ statevector # Qubit0(number_of_qubits)

(* The register after the gate of a U or CX instruction, computed from the
   instruction as the iteration leaves it *)
Applied(sv, op) ==
    IF op.name \in CXNames
    THEN ApplyCNOT(op.qubits[1], op.qubits[2], sv)
    ELSE ApplyOneQubit(compute_ugate_matrix(op.params.list), op.qubits[1], sv)

(* C7: an iteration on an instruction that is not conditional and whose name
   is none of measure, reset, id, barrier, U, u1, u2, u3, CX, cx raises
   SympySimulatorError with the unrecognized-operation message carrying the
   instruction's name and leaves the register state as it was; an iteration
   on an instruction named U, u1, u2, u3 (with 1, 2 or 3 parameters) or CX, cx
   raises nothing and leaves the register with the gate applied. *)
C7_UnrecognizedRaisesKnownApplied ==
    [][(Iteration /\ ~operation'.conditional)
       => /\ operation'.name \notin LoopNames
            => /\ pc' = "raised"
               /\ error' = Raise("SympySimulatorError",
                                 "{0} encountered unrecognized operation \"{1}\"",
                                 operation'.name)
               /\ statevector' = statevector
          /\ (\/ operation'.name \in CXNames
              \/ /\ operation'.name \in UNames
                 /\ operation'.params.has
                 /\ Len(operation'.params.list) \in 1..3)
            => /\ pc' = "loop"
               /\ error' = NoError
               /\ statevector' = Applied(statevector, operation')]_vars

(* The unknown name h met as third instruction with the register off its
   ground state *)
C7_Witness ==
    /\ pc = "raised"
    /\ operation.name = <<"h">>
    /\ ip = MaxInstrs
    /\ error.kind = "SympySimulatorError"
    /\ error.arg = <<"h">>
    /\ statevector # Qubit0(number_of_qubits)

---------------------------------------------------------------------------
(* Properties of _run_job, under SpecJob *)

(* The register after the first k instructions of a list, from sv *)
RECURSIVE Evolved(_, _, _)
Evolved(sv, instructions, k) ==
    IF k = 0 THEN sv
    ELSE Let1(Evolved(sv, instructions, k - 1), LAMBDA before :
            run_op(before, instructions[k]).statevector)

(* The result of a circuit run on its own from the all-zero state *)
ResultOf(circuit) ==
    ExperimentResult(Evolved(Qubit0(circuit.number_of_qubits), circuit.instructions,
                             Len(circuit.instructions)),
                     circuit.name)

(* C8: while a circuit of a batch is run, the register is what the circuit's
   own instructions handled so far make of the all-zero state of the
   circuit's own qubit count, so every circuit starts from that state
   whatever ran before on the object; the results gathered so far are those
   of the circuits before the current one, in the order of qobj.experiments,
   each the result of its circuit run on its own. *)
C8_FreshRegisterPerCircuit ==
    /\ pc = "loop"
        => /\ number_of_qubits = experiments[ci].number_of_qubits
           /\ statevector = Evolved(Qubit0(experiments[ci].number_of_qubits),
                                    experiments[ci].instructions, ip)
    /\ pc \in {"job", "loop"}
        => /\ Len(result_list) = ci - 1
           /\ \A j \in 1..Len(result_list) : result_list[j] = ResultOf(experiments[j])

(* Two circuits of different sizes done: the first left the ground state, the
   second, an empty circuit, yields the ground state of its own size *)
C8_Witness ==
    /\ pc = "job"
    /\ Len(result_list) = 2
    /\ experiments[1].number_of_qubits # experiments[2].number_of_qubits
    /\ experiments[1].instructions # <<>>
    /\ result_list[1].data # represent(Qubit0(experiments[1].number_of_qubits))
    /\ result_list[2].data = represent(Qubit0(experiments[2].number_of_qubits))

(* What run_circuit and get_sym_op do not support *)
Unsupported(op) ==
    \/ op.conditional
    \/ op.name \notin {ID, BARRIER} \cup UNames \cup CXNames
    \/ op.name \in UNames /\ ~(op.params.has /\ Len(op.params.list) \in 1..3)

(* The exception that an unsupported instruction ends run_circuit with *)
ErrorOf(op) ==
    IF op.conditional
    THEN Raise("SympySimulatorError",
               "conditional operations not supported in statevector simulator", <<>>)
    ELSE IF op.name \in {MEASURE, RESET}
    THEN Raise("SympySimulatorError",
               "operation {} not supported by sympy statevector simulator.", op.name)
    ELSE IF op.name \notin LoopNames
    THEN Raise("SympySimulatorError",
               "{0} encountered unrecognized operation \"{1}\"", op.name)
    ELSE IF ~op.params.has
    THEN Raise("TypeError", "object of type 'NoneType' has no len()", <<>>)
    ELSE Raise("SympySimulatorError", "U gate must carry 1, 2 or 3 parameters!", <<>>)

(* Places <<circuit, instruction>> of a qobj and their order in the batch *)
Places(exps) ==
    UNION {{<<j, i>> : i \in 1..Len(exps[j].instructions)} : j \in 1..Len(exps)}

At(exps, p) == exps[p[1]].instructions[p[2]]

Earlier(p, q) == p[1] < q[1] \/ (p[1] = q[1] /\ p[2] < q[2])

First(P) == CHOOSE p \in P : \A q \in P : q = p \/ Earlier(p, q)

UnsupportedPlaces(exps) == {p \in Places(exps) : Unsupported(At(exps, p))}

MeasurePlaces(exps) == {p \in Places(exps) : At(exps, p).name \in {MEASURE, RESET}}

ValidateMsg == "In circuit {}: statevector simulator does not support measure or reset."

(* C2, amended: when _run_job ends with an exception, then either the qobj
   holds a measure or reset somewhere, and the exception is the one of
   _validate naming the first circuit that holds one, raised before any
   instruction of any circuit was processed; or it holds none, and the
   exception is the one for the earliest unsupported instruction of the
   batch (conditional, unrecognized name, U gate without 1, 2 or 3
   parameters), raised when the loop reached it, with the circuits before it
   done and nothing after it processed. *)
C2_ValidateThenFirstUnsupported ==
    pc = "raised"
    => IF MeasurePlaces(experiments) # {}
       THEN /\ error = Raise("SympySimulatorError", ValidateMsg,
                             <<experiments[First(MeasurePlaces(experiments))[1]].name>>)
            /\ ci = 0
            /\ ip = 0
            /\ operation = NoInstr
            /\ result_list = <<>>
       ELSE /\ UnsupportedPlaces(experiments) # {}
            /\ LET p == First(UnsupportedPlaces(experiments))
               IN  /\ ci = p[1]
                   /\ ip = p[2]
                   /\ operation = At(experiments, p)
                   /\ error = ErrorOf(At(experiments, p))
                   /\ Len(result_list) = p[1] - 1

(* The unknown name h in the first circuit, a measure in the second: the
   exception is the one of _validate for the second circuit *)
C2_Witness ==
    /\ pc = "raised"
    /\ Len(experiments) = 2
    /\ experiments[1].instructions = <<Instr(<<"h">>, <<0>>, None, FALSE)>>
    /\ experiments[2].instructions = <<Instr(MEASURE, <<0>>, None, FALSE)>>
    /\ error = Raise("SympySimulatorError", ValidateMsg, <<2>>)
    /\ operation = NoInstr

(* C2 as the specification states it: the exception that ends _run_job is the
   one for the earliest unsupported instruction of the batch. *)
C2_EarliestUnsupportedDecides ==
    pc = "raised"
    => /\ UnsupportedPlaces(experiments) # {}
       /\ LET p == First(UnsupportedPlaces(experiments))
          IN  IF At(experiments, p).name \in {MEASURE, RESET}
                    /\ ~At(experiments, p).conditional
              THEN \/ error = ErrorOf(At(experiments, p))
                   \/ error = Raise("SympySimulatorError", ValidateMsg,
                                    <<experiments[p[1]].name>>)
              ELSE error = ErrorOf(At(experiments, p))

---------------------------------------------------------------------------
(* Properties of the matching of names, under SpecApi *)

NotSupported == Raise("SympySimulatorError", "Not supported", <<>>)

UnrecognizedMsg == "{0} encountered unrecognized operation \"{1}\""

(* C9, amended: names are matched as they are spelt.  The loop of
   run_circuit applies CNOT for both cx and CX and the generic U gate for U,
   u1, u2, u3, whose names it upper-cases only after they matched, and
   rejects any other spelling (U1, u, Cx, H) as unrecognized; get_sym_op
   converts nothing, and a name that has a lower-case letter and does not
   begin with U or CU ends it with SympySimulatorError 'Not supported'. *)
C9_NamesMatchedAsSpelt ==
    [][/\ (Iteration /\ ~operation'.conditional /\ operation'.name \notin {MEASURE, RESET})
          => /\ operation'.name \notin LoopNames
                => pc' = "raised" /\ error'.msg = UnrecognizedMsg
             /\ operation'.name \in CXNames
                => /\ pc' = "loop"
                   /\ statevector' = ApplyCNOT(operation'.qubits[1], operation'.qubits[2],
                                               statevector)
             /\ (operation'.name \in UNames /\ operation'.params.has
                    /\ Len(operation'.params.list) \in 1..3)
                => /\ pc' = "loop"
                   /\ statevector' = ApplyOneQubit(
                                        compute_ugate_matrix(operation'.params.list),
                                        operation'.qubits[1], statevector)
       /\ (pc = "called" /\ pc' # "called"
              /\ call.name # Upper(call.name) /\ ~IsRotationName(call.name))
          => /\ pc' = "raised"
             /\ error' = NotSupported
             /\ ret' = NoReturn]_vars

(* The instruction cx, spelt in lower case, has flipped qubit 1 of a register
   whose qubit 0 was set *)
C9_Witness ==
    /\ pc = "loop"
    /\ number_of_qubits = 2
    /\ operation.name = <<"c","x">>
    /\ operation.qubits = <<0, 1>>
    /\ statevector.amp = <<RZero, RZero, RZero, ROne>>

(* C9 as the specification states it: a name is dispatched as its upper-case
   form is, by get_sym_op and by the loop of run_circuit. *)
C9_CaseInsensitive ==
    /\ CallDone
        => LET r == get_sym_op(Upper(call.name), call.qid_tuple, call.given)
           IN  /\ error = r.err
               /\ pc = "returned" => ret = r.gate
    /\ (operation # NoInstr /\ ~operation.conditional
            /\ Upper(operation.name) \in {Upper(n) : n \in LoopNames})
        => error.msg # UnrecognizedMsg

====
